---- MODULE Spec2Model ----
(***************************************************************************)
(* Model of the Proyecto-API REST layer: the usuarios and productos        *)
(* routers (express + express-validator) in front of a MySQL pool.         *)
(*                                                                         *)
(* A request is received by a router, runs its validation chain and its    *)
(* handler up to the single `await pool.query(...)`; the statement is then *)
(* executed by the database (atomically, one statement, autocommit) and    *)
(* the handler's continuation maps the outcome to the HTTP response.       *)
(*                                                                         *)
(* Strings are sequences of one-character strings so that trim, isInt,     *)
(* Number, isEmail and normalizeEmail are computed, not assumed.           *)
(* precio is kept in thousandths so that DECIMAL(10,2) rounding is real.   *)
(***************************************************************************)
EXTENDS Integers, Sequences, FiniteSets, TLC

\* ------------------------------------------------------------------ bounds

\* Requests accepted in one behaviour.
MaxRequests == 2

\* ------------------------------------------------------------ JSON values

Undefined == [t |-> "undefined", s |-> <<>>, n |-> 0]
Null      == [t |-> "null", s |-> <<>>, n |-> 0]
Str(s)    == [t |-> "string", s |-> s, n |-> 0]
Num(n)    == [t |-> "number", s |-> <<>>, n |-> n]

\* ------------------------------------------------- character-level helpers

Digits == <<"0", "1", "2", "3", "4", "5", "6", "7", "8", "9">>
Upper  == <<"A", "B", "C", "D", "E", "F", "G", "H", "I", "J", "K", "L", "M",
            "N", "O", "P", "Q", "R", "S", "T", "U", "V", "W", "X", "Y", "Z">>
Lower  == <<"a", "b", "c", "d", "e", "f", "g", "h", "i", "j", "k", "l", "m",
            "n", "o", "p", "q", "r", "s", "t", "u", "v", "w", "x", "y", "z">>

DigitOf == [c \in {Digits[i] : i \in 1..10} |-> (CHOOSE i \in 1..10 : Digits[i] = c) - 1]
LowerOf == [c \in {Upper[i] : i \in 1..26} |-> Lower[CHOOSE i \in 1..26 : Upper[i] = c]]
Letters == {Upper[i] : i \in 1..26} \cup {Lower[i] : i \in 1..26}

IsDigit(c) == c \in DOMAIN DigitOf
DigitVal(c) == DigitOf[c]
IsLetter(c) == c \in Letters

\* String.prototype.toLowerCase, one character.
ToLowerChar(c) == IF c \in DOMAIN LowerOf THEN LowerOf[c] ELSE c

ToLowerCase(s) == [i \in 1..Len(s) |-> ToLowerChar(s[i])]

\* String.prototype trim as validator.js trim() applies it: leading and
\* trailing blanks removed.
RECURSIVE LTrim(_)
LTrim(s) == IF s # <<>> /\ Head(s) = " " THEN LTrim(Tail(s)) ELSE s

RECURSIVE RTrim(_)
RTrim(s) ==
    IF s # <<>> /\ s[Len(s)] = " " THEN RTrim(SubSeq(s, 1, Len(s) - 1)) ELSE s

trim(s) == RTrim(LTrim(s))

\* Decimal value of a run of digits.
RECURSIVE DecimalValue(_)
DecimalValue(s) ==
    IF s = <<>> THEN 0
    ELSE 10 * DecimalValue(SubSeq(s, 1, Len(s) - 1)) + DigitVal(s[Len(s)])

HasSign(s) == s # <<>> /\ Head(s) \in {"+", "-"}
Unsigned(s) == IF HasSign(s) THEN Tail(s) ELSE s

\* validator.js isInt without allow_leading_zeroes: /^[-+]?[0-9]+$/
IntRegex(s) ==
    /\ Unsigned(s) # <<>>
    /\ \A i \in 1..Len(Unsigned(s)) : IsDigit(Unsigned(s)[i])

\* JavaScript Number(str) on a string IntRegex accepts.
Number(s) ==
    IF HasSign(s) /\ Head(s) = "-"
    THEN 0 - DecimalValue(Unsigned(s))
    ELSE DecimalValue(Unsigned(s))


\* Variant: isInt({ min: 0 }), which lets the id 0 through.
isIntMin0(s) == IntRegex(s) /\ Number(s) >= 0

\* express-validator isInt({ gt: 0 }): the regex, and Number(str) > 0.
isIntGt0(s) == IntRegex(s) /\ Number(s) > 0

\* validator.js isEmail, restricted to addresses over letters, digits and
\* dots: one "@", a non-empty local part, a domain of at least two non-empty
\* labels.
AtPositions(s) == {i \in 1..Len(s) : s[i] = "@"}
DottedAtoms(p) ==
    /\ p # <<>>
    /\ \A i \in 1..Len(p) : IsLetter(p[i]) \/ IsDigit(p[i]) \/ p[i] = "."
    /\ p[1] # "." /\ p[Len(p)] # "."
    /\ \A i \in 1..(Len(p) - 1) : ~(p[i] = "." /\ p[i + 1] = ".")
isEmail(s) ==
    /\ Cardinality(AtPositions(s)) = 1
    /\ LET a == CHOOSE i \in AtPositions(s) : TRUE
           domain == SubSeq(s, a + 1, Len(s))
       IN  /\ DottedAtoms(SubSeq(s, 1, a - 1))
           /\ DottedAtoms(domain)
           /\ \E i \in 1..Len(domain) : domain[i] = "."

\* validator.js normalizeEmail with its defaults, for a domain that is none
\* of gmail, outlook, yahoo, icloud: the whole address is lowercased.
normalizeEmail(s) == ToLowerCase(s)

\* DECIMAL(10,2): a value in thousandths is rounded half up to hundredths.
RoundDecimal2(n) == ((n + 5) \div 10) * 10

\* ---------------------------------------------------------------- routers

\* usuarios.js, productos.js and the second copy of productos.js that passes
\* req.params.id to the query without Number().
Routers == {"usuarios", "productos", "productosCopy"}

Table(r) == IF r = "usuarios" THEN "usuarios" ELSE "productos"
Tables == {"usuarios", "productos"}

Columns(t) ==
    IF t = "usuarios" THEN <<"nombre", "apellido", "correo">>
    ELSE <<"nombre", "descripcion", "precio">>

AllFields == {"nombre", "apellido", "correo", "descripcion", "precio"}

Range(q) == {q[i] : i \in 1..Len(q)}

\* ------------------------------------------------------- validation layer

NameRule(v) == v.t = "string" /\ Len(trim(v.s)) >= 2
TextRule(v) == v.t = "string"
EmailRule(v) == v.t = "string" /\ isEmail(v.s)
\* isFloat({ min: 0 }) on a number, or on a string of digits.
PriceRule(v) ==
    \/ v.t = "number" /\ v.n >= 0
    \/ v.t = "string" /\ IntRegex(v.s) /\ Number(v.s) >= 0

Rule(f, v) ==
    CASE f \in {"nombre", "apellido"} -> NameRule(v)
      [] f = "correo" -> EmailRule(v)
      [] f = "descripcion" -> TextRule(v)
      [] f = "precio" -> PriceRule(v)

\* .optional(): the chain is skipped when the field is undefined.
IsOptional(r, op, f) ==
    \/ op = "PUT"
    \/ Table(r) = "productos" /\ f \in {"descripcion", "precio"}

HasIdParam(op) == op \in {"GET_ID", "PUT", "DELETE"}
HasBody(op) == op \in {"POST", "PUT"}

\* validationResult(req): the fields whose chain reported an error.
validationResult(r, op, id, body) ==
    (IF HasIdParam(op) /\ ~isIntGt0(id) THEN {"id"} ELSE {})
    \cup
    (IF HasBody(op)
     THEN {f \in Range(Columns(Table(r))) :
             /\ ~(IsOptional(r, op, f) /\ body[f] = Undefined)
             /\ ~Rule(f, body[f])}
     ELSE {})

\* The sanitizers of the chains (trim, normalizeEmail) write back to req.body.
Sanitize(f, v) ==
    IF v = Undefined THEN v
    ELSE CASE f \in {"nombre", "apellido", "descripcion"} -> Str(trim(v.s))
           [] f = "correo" -> Str(normalizeEmail(v.s))
           [] f = "precio" -> v

SanitizedBody(body) == [f \in AllFields |-> Sanitize(f, body[f])]

\* ------------------------------------------------------------- database

SeedNombre == Str(<<"E", "r", "i", "c", "k">>)
SeedApellido == Str(<<"V", "e", "r", "a">>)
SeedCorreo == Str(<<"e", "r", "i", "c", "k", "@", "e", "x", "a", "m", "p", "l", "e", ".", "c", "o", "m">>)
SeedProducto == Str(<<"P", "r", "o", "d", "u", "c", "t", "o", " ", "A">>)
SeedDescripcion ==
    Str(<<"D", "e", "s", "c", "r", "i", "p", "c", "i", "ó", "n", " ", "d", "e", "l">> \o
        <<" ", "p", "r", "o", "d", "u", "c", "t", "o", " ", "A">>)
SeedPrecio == Num(99900)


VARIABLES
    db,        \* table name -> set of rows
    autoInc,   \* table name -> next AUTO_INCREMENT value
    now,       \* the database clock (CURRENT_TIMESTAMP)
    usedIds,   \* table name -> every id a row of the table ever had (history)
    router,    \* the router the requests of this run are sent to
    req,       \* slot -> the request the slot holds and how far it got
    nreq       \* requests received so far

vars == <<db, autoInc, now, usedIds, router, req, nreq>>

\* Two requests can be in progress at once; a slot whose request was
\* answered takes the next request.
Slots == {1, 2}

Row(id, cols, ts) == [id |-> id, cols |-> cols, fecha_creacion |-> ts]

Ids(t) == {row.id : row \in db[t]}

\* What a column stores of the value it is given.
Stored(col, v) ==
    IF col = "precio"
    THEN (IF v.t = "number" THEN Num(RoundDecimal2(v.n))
          ELSE IF v.t = "string" THEN Num(1000 * Number(v.s))
          ELSE v)
    ELSE v

\* Variant: correo without its UNIQUE index.
NoUniqueIndex(t, id, cols) == FALSE

\* correo VARCHAR(150) NOT NULL UNIQUE: another row holds the value.
DuplicateEntry(t, id, cols) ==
    /\ t = "usuarios"
    /\ "correo" \in DOMAIN cols
    /\ \E row \in db[t] : row.id # id /\ row.cols["correo"] = cols["correo"]

\* The pairs of a SET list, or the columns of an INSERT, as a function.
Assigned(args) ==
    [c \in {args[k].col : k \in 1..Len(args)} |->
        (args[CHOOSE k \in 1..Len(args) : args[k].col = c]).val]

RECURSIVE OrderByIdDesc(_)
OrderByIdDesc(rows) ==
    IF rows = {} THEN <<>>
    ELSE LET top == CHOOSE row \in rows : \A o \in rows : o.id <= row.id
         IN  <<top>> \o OrderByIdDesc(rows \ {top})

NoStmt == [kind |-> "none", table |-> "", args |-> <<>>, id |-> 0]
Stmt(kind, t, args, id) == [kind |-> kind, table |-> t, args |-> args, id |-> id]

Result(err, rows, affected, insertId) ==
    [err |-> err, rows |-> rows, affectedRows |-> affected, insertId |-> insertId]

Outcome(rows, nextId, res) == [rows |-> rows, autoInc |-> nextId, res |-> res]

\* SELECT ... FROM t ORDER BY id DESC
ExecSelectAll(t) ==
    Outcome(db[t], autoInc[t], Result("", OrderByIdDesc(db[t]), 0, 0))

\* SELECT ... FROM t WHERE id = ?
ExecSelect(t, id) ==
    Outcome(db[t], autoInc[t],
            Result("", OrderByIdDesc({row \in db[t] : row.id = id}), 0, 0))

\* Variant: the id is one more than the greatest id in the table, not the
\* AUTO_INCREMENT counter.
ExecInsertMaxId(t, args, ts) ==
    LET given == Assigned(args)
        cols  == [c \in DOMAIN given |-> Stored(c, given[c])]
        top   == CHOOSE n \in {0} \cup {row.id : row \in db[t]} :
                    \A row \in db[t] : row.id <= n
        id    == top + 1
    IN  IF DuplicateEntry(t, id, cols)
        THEN Outcome(db[t], id + 1, Result("ER_DUP_ENTRY", <<>>, 0, 0))
        ELSE Outcome(db[t] \cup {Row(id, cols, Num(ts))}, id + 1,
                     Result("", <<>>, 1, id))

\* INSERT INTO t (...) VALUES (?, ?, ?): id from AUTO_INCREMENT,
\* fecha_creacion from DEFAULT CURRENT_TIMESTAMP.  A rejected insert has
\* already taken its AUTO_INCREMENT value.
ExecInsert(t, args, ts) ==
    LET given == Assigned(args)
        cols  == [c \in DOMAIN given |-> Stored(c, given[c])]
        id    == autoInc[t]
    IN  IF DuplicateEntry(t, id, cols)
        THEN Outcome(db[t], id + 1, Result("ER_DUP_ENTRY", <<>>, 0, 0))
        ELSE Outcome(db[t] \cup {Row(id, cols, Num(ts))}, id + 1,
                     Result("", <<>>, 1, id))

\* UPDATE t SET c = ?, ... WHERE id = ?  (affectedRows counts the rows the
\* WHERE matched: mysql2 connects with the FOUND_ROWS flag).
ExecUpdate(t, args, id) ==
    LET given   == Assigned(args)
        matched == {row \in db[t] : row.id = id}
        set(row) == [row EXCEPT !.cols =
                        [c \in DOMAIN row.cols |->
                            IF c \in DOMAIN given THEN Stored(c, given[c])
                            ELSE row.cols[c]]]
    IN  IF matched = {}
        THEN Outcome(db[t], autoInc[t], Result("", <<>>, 0, 0))
        ELSE IF DuplicateEntry(t, id, given)
        THEN Outcome(db[t], autoInc[t], Result("ER_DUP_ENTRY", <<>>, 0, 0))
        ELSE Outcome((db[t] \ matched) \cup {set(row) : row \in matched},
                     autoInc[t], Result("", <<>>, Cardinality(matched), 0))

\* DELETE FROM t WHERE id = ?
ExecDelete(t, id) ==
    LET matched == {row \in db[t] : row.id = id}
    IN  Outcome(db[t] \ matched, autoInc[t],
                Result("", <<>>, Cardinality(matched), 0))

\* The statement as the server executes it at time ts.
Execute(stmt, ts) ==
    CASE stmt.kind = "SELECT_ALL" -> ExecSelectAll(stmt.table)
      [] stmt.kind = "SELECT" -> ExecSelect(stmt.table, stmt.id)
      [] stmt.kind = "INSERT" -> ExecInsert(stmt.table, stmt.args, ts)
      [] stmt.kind = "UPDATE" -> ExecUpdate(stmt.table, stmt.args, stmt.id)
      [] stmt.kind = "DELETE" -> ExecDelete(stmt.table, stmt.id)

\* pool.query(sql, params) as the caller sees it.  The statement runs as one
\* unit; a pool or connection fault (no slot before connectTimeout, a lost
\* connection) rejects the promise either before the statement ran or after
\* it committed.
Faults == {"none", "before", "after"}

query(stmt, ts, fault) ==
    LET out == Execute(stmt, ts)
        lost == Result("ETIMEDOUT", <<>>, 0, 0)
    IN  CASE fault = "none" -> out
          [] fault = "before" -> Outcome(db[stmt.table], autoInc[stmt.table], lost)
          [] fault = "after" ->
                Outcome(out.rows, out.autoInc,
                        IF out.res.err = "" THEN lost ELSE out.res)


\* ------------------------------------------------------ requests, responses

NoBody == [f \in AllFields |-> Undefined]

NoResp == [status |-> 0, kind |-> "", id |-> 0, rows |-> <<>>, errors |-> {}]
Resp(status, kind, id, rows) ==
    [status |-> status, kind |-> kind, id |-> id, rows |-> rows, errors |-> {}]

Idle ==
    [pc |-> "idle", router |-> "", op |-> "", id |-> <<>>, body |-> NoBody,
     stmt |-> NoStmt, queries |-> 0, err |-> "", resp |-> NoResp,
     handler |-> FALSE, responses |-> 0]

\* A slot is free when it holds no request or an answered one; a request
\* takes the first free slot.
Free(i) == req[i].pc \in {"idle", "done"}
Accept(i) ==
    /\ nreq < MaxRequests
    /\ Free(i)
    /\ \A j \in Slots : j < i => ~Free(j)

\* The handler runs and returns res.status(...).json(...) before any query
\* was issued.
Answer(i, r, op, id, body, resp) ==
    /\ req' = [req EXCEPT ![i] =
                 [pc |-> "done", router |-> r, op |-> op, id |-> id,
                  body |-> body, stmt |-> NoStmt, queries |-> 0, err |-> "",
                  resp |-> resp, handler |-> TRUE, responses |-> 1]]
    /\ nreq' = nreq + 1
    /\ UNCHANGED <<db, autoInc, now, usedIds, router>>

\* The handler reaches `await pool.query(sql, params)`.
Await(i, r, op, id, body, stmt) ==
    /\ req' = [req EXCEPT ![i] =
                 [pc |-> "awaiting", router |-> r, op |-> op, id |-> id,
                  body |-> body, stmt |-> stmt, queries |-> 1, err |-> "",
                  resp |-> NoResp, handler |-> TRUE, responses |-> 0]]
    /\ nreq' = nreq + 1
    /\ UNCHANGED <<db, autoInc, now, usedIds, router>>

\* handleValidation: TRUE when next() is called, FALSE when it answers 400.
handleValidation(errors) == errors = {}

ValidationResponse(errors) ==
    [status |-> 400, kind |-> "errors", id |-> 0, rows |-> <<>>, errors |-> errors]

\* handleValidation returns res.status(400).json({ errors }) and does not
\* call next(): the handler is not run.
Reject(i, r, op, id, body, errors) ==
    /\ req' = [req EXCEPT ![i] =
                 [pc |-> "done", router |-> r, op |-> op, id |-> id,
                  body |-> body, stmt |-> NoStmt, queries |-> 0, err |-> "",
                  resp |-> ValidationResponse(errors), handler |-> FALSE,
                  responses |-> 1]]
    /\ nreq' = nreq + 1
    /\ UNCHANGED <<db, autoInc, now, usedIds, router>>

\* The id handed to the query: Number(req.params.id), or, in the copy of
\* productos.js that passes the string, the number MySQL reads from it.
IdParam(r, id) == Number(id)

\* Variant: `if (nombre)` for `if (nombre !== undefined)`: a field is taken
\* when its value is truthy.
Truthy(v) ==
    \/ v.t = "string" /\ v.s # <<>>
    \/ v.t = "number" /\ v.n # 0
RECURSIVE SetListTruthy(_, _)
SetListTruthy(cols, body) ==
    IF cols = <<>> THEN <<>>
    ELSE (IF Truthy(body[Head(cols)])
          THEN <<[col |-> Head(cols), val |-> body[Head(cols)]]>>
          ELSE <<>>) \o SetListTruthy(Tail(cols), body)

\* Variant: every column is set, an omitted one to null.
SetListAllColumns(cols, body) ==
    [k \in 1..Len(cols) |->
        [col |-> cols[k],
         val |-> IF body[cols[k]] = Undefined THEN Null ELSE body[cols[k]]]]

\* fields / values of the update: the supplied fields, in the handler's order.
RECURSIVE SetList(_, _)
SetList(cols, body) ==
    IF cols = <<>> THEN <<>>
    ELSE (IF body[Head(cols)] # Undefined
          THEN <<[col |-> Head(cols), val |-> body[Head(cols)]]>>
          ELSE <<>>) \o SetList(Tail(cols), body)

\* The VALUES of the insert; productos defaults descripcion = null, precio = 0.0.
InsertValues(r, body) ==
    IF r = "usuarios"
    THEN <<[col |-> "nombre", val |-> body["nombre"]],
           [col |-> "apellido", val |-> body["apellido"]],
           [col |-> "correo", val |-> body["correo"]]>>
    ELSE <<[col |-> "nombre", val |-> body["nombre"]],
           [col |-> "descripcion",
            val |-> IF body["descripcion"] = Undefined THEN Null
                    ELSE body["descripcion"]],
           [col |-> "precio",
            val |-> IF body["precio"] = Undefined THEN Num(0)
                    ELSE body["precio"]]>>

\* --------------------------------------------------- handlers, first half

PathIds ==
    {<<"0">>, <<"-", "1">>, <<"1", ".", "5">>, <<"1">>, <<"0", "2">>}

Ana == Str(<<" ", "A", "n", "a">>)
Li == Str(<<"L", "i">>)
AnaCorreo == Str(<<"A", "N", "A", "@", "E", "x", "a", "m", "p", "l", "e", ".", "c", "o", "m">>)
ErickCorreo == Str(<<"E", "r", "i", "c", "k", "@", "E", "x", "a", "m", "p", "l", "e", ".", "c", "o", "m">>)

Body(nombre, f2, f3) ==
    IF router = "usuarios"
    THEN [NoBody EXCEPT !["nombre"] = nombre, !["apellido"] = f2, !["correo"] = f3]
    ELSE [NoBody EXCEPT !["nombre"] = nombre, !["descripcion"] = f2, !["precio"] = f3]

\* The bodies a client sends: empty, one field, all fields, a nombre that is
\* too short once trimmed, a negative precio.
Bodies ==
    IF router = "usuarios"
    THEN {Body(Undefined, Undefined, Undefined),
          Body(Ana, Undefined, Undefined),
          Body(Undefined, Undefined, AnaCorreo),
          Body(Ana, Li, AnaCorreo),
          Body(Ana, Li, ErickCorreo),
          Body(Str(<<"A", " ">>), Li, AnaCorreo)}
    ELSE {Body(Undefined, Undefined, Undefined),
          Body(Undefined, Undefined, Num(0)),
          Body(Undefined, Str(<<>>), Undefined),
          Body(Ana, Undefined, Undefined),
          Body(Ana, Str(<<"x", " ">>), Num(2505)),
          Body(Ana, Undefined, Num(0 - 1000))}

\* Variant: the handler without its test for an empty field list.
NoFieldsUntested(fields) == FALSE

\* if (fields.length === 0)
NoFields(fields) == Len(fields) = 0

\* GET /
GetAll(i) ==
    /\ Accept(i)
    /\ Await(i, router, "GET_ALL", <<>>, NoBody,
             Stmt("SELECT_ALL", Table(router), <<>>, 0))

\* GET /:id
GetById(i) ==
    /\ Accept(i)
    /\ \E id \in PathIds :
        LET errors == validationResult(router, "GET_ID", id, NoBody)
        IN  IF ~handleValidation(errors)
            THEN Reject(i, router, "GET_ID", id, NoBody, errors)
            ELSE Await(i, router, "GET_ID", id, NoBody,
                       Stmt("SELECT", Table(router), <<>>, IdParam(router, id)))

\* POST /
Post(i) ==
    /\ Accept(i)
    /\ \E body \in Bodies :
        LET errors == validationResult(router, "POST", <<>>, body)
        IN  IF ~handleValidation(errors)
            THEN Reject(i, router, "POST", <<>>, body, errors)
            ELSE Await(i, router, "POST", <<>>, body,
                       Stmt("INSERT", Table(router),
                            InsertValues(router, SanitizedBody(body)), 0))

\* PUT /:id
Put(i) ==
    /\ Accept(i)
    /\ \E id \in PathIds, body \in Bodies :
        LET errors == validationResult(router, "PUT", id, body)
            fields == SetList(Columns(Table(router)), SanitizedBody(body))
        IN  IF ~handleValidation(errors)
            THEN Reject(i, router, "PUT", id, body, errors)
            ELSE IF NoFields(fields)
            THEN Answer(i, router, "PUT", id, body, Resp(400, "error", 0, <<>>))
            ELSE Await(i, router, "PUT", id, body,
                       Stmt("UPDATE", Table(router), fields, IdParam(router, id)))

\* DELETE /:id
Delete(i) ==
    /\ Accept(i)
    /\ \E id \in PathIds :
        LET errors == validationResult(router, "DELETE", id, NoBody)
        IN  IF ~handleValidation(errors)
            THEN Reject(i, router, "DELETE", id, NoBody, errors)
            ELSE Await(i, router, "DELETE", id, NoBody,
                       Stmt("DELETE", Table(router), <<>>, IdParam(router, id)))

\* ---------------------------------- handlers, after the query has settled

\* Variant: a catch block without its ER_DUP_ENTRY branch.
CatchStatusNoDupBranch(r, op, err) == 500

\* catch (err): 409 for ER_DUP_ENTRY in the usuarios create and update
\* handlers, 500 otherwise.
CatchStatus(r, op, err) ==
    IF r = "usuarios" /\ op \in {"POST", "PUT"} /\ err = "ER_DUP_ENTRY"
    THEN 409 ELSE 500

GetAllResponse(r, res) ==
    IF res.err # "" THEN Resp(500, "error", 0, <<>>)
    ELSE Resp(200, "rows", 0, res.rows)

GetByIdResponse(r, res) ==
    IF res.err # "" THEN Resp(500, "error", 0, <<>>)
    ELSE IF Len(res.rows) = 0 THEN Resp(404, "error", 0, <<>>)
    ELSE Resp(200, "row", 0, <<res.rows[1]>>)

PostResponse(r, res, args) ==
    IF res.err # "" THEN Resp(CatchStatus(r, "POST", res.err), "error", 0, <<>>)
    ELSE Resp(201, "created", res.insertId,
              <<Row(res.insertId, Assigned(args), Undefined)>>)

\* Variant: the update handler without its affectedRows test.
PutResponseNoRowTest(r, res, id) ==
    IF res.err # "" THEN Resp(CatchStatus(r, "PUT", res.err), "error", 0, <<>>)
    ELSE Resp(200, "ok", id, <<>>)

PutResponse(r, res, id) ==
    IF res.err # "" THEN Resp(CatchStatus(r, "PUT", res.err), "error", 0, <<>>)
    ELSE IF res.affectedRows = 0 THEN Resp(404, "error", 0, <<>>)
    ELSE Resp(200, "ok", id, <<>>)

\* Variant: the delete handler without its affectedRows test.
DeleteResponseNoRowTest(r, res) ==
    IF res.err # "" THEN Resp(500, "error", 0, <<>>)
    ELSE Resp(200, "ok", 0, <<>>)

DeleteResponse(r, res) ==
    IF res.err # "" THEN Resp(500, "error", 0, <<>>)
    ELSE IF res.affectedRows = 0 THEN Resp(404, "error", 0, <<>>)
    ELSE Resp(200, "ok", 0, <<>>)

\* Variant: `if (result.affectedRows === 0) res.status(404).json(...)` without
\* its return, so that the success response is sent after the 404.
SettleNoReturn(i, out, resp) ==
    /\ db' = [db EXCEPT ![req[i].stmt.table] = out.rows]
    /\ autoInc' = [autoInc EXCEPT ![req[i].stmt.table] = out.autoInc]
    /\ now' = now + 1
    /\ usedIds' = [usedIds EXCEPT ![req[i].stmt.table] =
                     @ \cup {row.id : row \in out.rows}]
    /\ req' = [req EXCEPT ![i].pc = "done", ![i].err = out.res.err,
                          ![i].resp = resp,
                          ![i].responses =
                              IF resp.status = 404 THEN @ + 2 ELSE @ + 1]
    /\ UNCHANGED <<router, nreq>>

\* Variant: a query that raised an error is issued once more.
SettleRetry(i, out, resp) ==
    /\ db' = [db EXCEPT ![req[i].stmt.table] = out.rows]
    /\ autoInc' = [autoInc EXCEPT ![req[i].stmt.table] = out.autoInc]
    /\ now' = now + 1
    /\ usedIds' = [usedIds EXCEPT ![req[i].stmt.table] =
                     @ \cup {row.id : row \in out.rows}]
    /\ req' = IF out.res.err # "" /\ req[i].queries < 2
              THEN [req EXCEPT ![i].queries = @ + 1]
              ELSE [req EXCEPT ![i].pc = "done", ![i].err = out.res.err,
                               ![i].resp = resp, ![i].responses = @ + 1]
    /\ UNCHANGED <<router, nreq>>

\* The query of slot i settles with outcome out and the handler answers resp.
Settle(i, out, resp) ==
    /\ db' = [db EXCEPT ![req[i].stmt.table] = out.rows]
    /\ autoInc' = [autoInc EXCEPT ![req[i].stmt.table] = out.autoInc]
    /\ now' = now + 1
    /\ usedIds' = [usedIds EXCEPT ![req[i].stmt.table] =
                     @ \cup {row.id : row \in out.rows}]
    /\ req' = [req EXCEPT ![i].pc = "done", ![i].err = out.res.err,
                          ![i].resp = resp, ![i].responses = @ + 1]
    /\ UNCHANGED <<router, nreq>>

Awaiting(i, op) == req[i].pc = "awaiting" /\ req[i].op = op

GetAllDone(i) ==
    /\ Awaiting(i, "GET_ALL")
    /\ \E fault \in Faults :
        LET out == query(req[i].stmt, now + 1, fault)
        IN  Settle(i, out, GetAllResponse(req[i].router, out.res))

GetByIdDone(i) ==
    /\ Awaiting(i, "GET_ID")
    /\ \E fault \in Faults :
        LET out == query(req[i].stmt, now + 1, fault)
        IN  Settle(i, out, GetByIdResponse(req[i].router, out.res))

PostDone(i) ==
    /\ Awaiting(i, "POST")
    /\ \E fault \in Faults :
        LET out == query(req[i].stmt, now + 1, fault)
        IN  Settle(i, out, PostResponse(req[i].router, out.res, req[i].stmt.args))

PutDone(i) ==
    /\ Awaiting(i, "PUT")
    /\ \E fault \in Faults :
        LET out == query(req[i].stmt, now + 1, fault)
        IN  Settle(i, out, PutResponse(req[i].router, out.res, req[i].stmt.id))

DeleteDone(i) ==
    /\ Awaiting(i, "DELETE")
    /\ \E fault \in Faults :
        LET out == query(req[i].stmt, now + 1, fault)
        IN  Settle(i, out, DeleteResponse(req[i].router, out.res))

\* ------------------------------------------------------ the specification

\* init.sql: the two tables with one example row each.
Init ==
    /\ db = [t \in Tables |->
               IF t = "usuarios"
               THEN {Row(1, [nombre |-> SeedNombre, apellido |-> SeedApellido,
                             correo |-> SeedCorreo], Num(1))}
               ELSE {Row(1, [nombre |-> SeedProducto,
                             descripcion |-> SeedDescripcion,
                             precio |-> SeedPrecio], Num(1))}]
    /\ autoInc = [t \in Tables |-> 2]
    /\ usedIds = [t \in Tables |-> {1}]
    /\ now = 1
    /\ router \in Routers
    /\ req = [i \in Slots |-> Idle]
    /\ nreq = 0

Next ==
    \E i \in Slots :
        \/ GetAll(i)
        \/ GetById(i)
        \/ Post(i)
        \/ Put(i)
        \/ Delete(i)
        \/ GetAllDone(i)
        \/ GetByIdDone(i)
        \/ PostDone(i)
        \/ PutDone(i)
        \/ DeleteDone(i)

Spec == Init /\ [][Next]_vars

\* The continuation of the handler in slot i, whichever route it is.
Respond(i) ==
    \/ GetAllDone(i)
    \/ GetByIdDone(i)
    \/ PostDone(i)
    \/ PutDone(i)
    \/ DeleteDone(i)

\* Every awaited pool.query settles, with a result or with an error, and the
\* event loop then runs the continuation of the handler that awaited it; no
\* handler blocks the loop, so a pending continuation is never starved by the
\* other requests.
FairSpec == Spec /\ \A i \in Slots : WF_vars(Respond(i))


\* ================================================================ claims

Used(i) == req[i].pc # "idle"
Done(i) == req[i].pc = "done"

\* The query of slot i settles in this step.
Settles(i) == req[i].pc = "awaiting" /\ req'[i].pc = "done"
\* Slot i takes a request in this step and answers it without a query.
Refuses(i) == Accept(i) /\ nreq' = nreq + 1 /\ req'[i].pc = "done"
\* The request of slot i gets its response in this step.
Answered(i) == Settles(i) \/ Refuses(i)

\* A path id that is not the decimal text of an integer greater than zero.
NotPositiveInteger(s) == ~IntRegex(s) \/ Number(s) <= 0

TableOf(i) == Table(req[i].router)

\* The fields of its resource that the body of the request in slot i supplies.
Supplied(i) ==
    {f \in Range(Columns(TableOf(i))) : req[i].body[f] # Undefined}

\* ---- C1
\* C1: a get-by-id, update or delete whose path id is zero, negative or not
\* an integer is answered 400 and issues no statement; so is every request
\* that fails a validation rule.
C1_InvalidRequestNeverReachesGateway ==
    \A i \in Slots :
        (/\ Used(i)
         /\ \/ HasIdParam(req[i].op) /\ NotPositiveInteger(req[i].id)
            \/ validationResult(req[i].router, req[i].op, req[i].id,
                                req[i].body) # {})
        => /\ Done(i)
           /\ req[i].resp.status = 400
           /\ req[i].queries = 0
           /\ req[i].stmt = NoStmt
           /\ req[i].err = ""

C1_Witness ==
    \E i \in Slots :
        /\ Done(i) /\ req[i].op = "PUT" /\ req[i].id = <<"1", ".", "5">>
        /\ Supplied(i) # {}
        /\ req[i].resp.status = 400 /\ req[i].queries = 0

\* ---- C2
\* C2 as stated: a get-by-id, update or delete that passes validation, whose
\* id no row has and whose query (if any) raises no error, is answered 404.
C2_AbsentIdAlways404 ==
    [][\A i \in Slots :
          (/\ Answered(i)
           /\ HasIdParam(req'[i].op)
           /\ validationResult(req'[i].router, req'[i].op, req'[i].id,
                               req'[i].body) = {}
           /\ Number(req'[i].id) \notin Ids(Table(req'[i].router))
           /\ req'[i].err = "")
          => req'[i].resp.status = 404]_vars

\* C2 amended: the same, for an update only when its body supplies at least
\* one updatable field.
C2_AbsentId404 ==
    [][\A i \in Slots :
          (/\ Answered(i)
           /\ HasIdParam(req'[i].op)
           /\ validationResult(req'[i].router, req'[i].op, req'[i].id,
                               req'[i].body) = {}
           /\ Number(req'[i].id) \notin Ids(Table(req'[i].router))
           /\ req'[i].err = ""
           /\ (req'[i].op = "PUT" =>
                 \E f \in Range(Columns(Table(req'[i].router))) :
                     req'[i].body[f] # Undefined))
          => /\ req'[i].resp.status = 404
             /\ req'[i].resp.kind = "error"]_vars

C2_Witness ==
    \E i \in Slots :
        /\ Done(i) /\ req[i].op = "PUT" /\ req[i].id = <<"0", "2">>
        /\ 2 \notin usedIds[TableOf(i)]
        /\ req[i].queries = 1 /\ req[i].err = ""
        /\ req[i].resp.status = 404

\* ---- C3
\* C3: when an update is answered 200, the row with its id keeps its id, its
\* fecha_creacion and every column the body did not supply, every other row
\* of the table is unchanged, and so is the other table.
C3_PartialUpdateFrame ==
    [][\A i \in Slots :
          (Settles(i) /\ req[i].op = "PUT" /\ req'[i].resp.status = 200)
          => LET t == TableOf(i)
                 id == req[i].stmt.id
             IN  /\ {row.id : row \in db'[t]} = Ids(t)
                 /\ \A row \in db[t] : row.id # id => row \in db'[t]
                 /\ \A old \in db[t] : old.id = id =>
                       \E new \in db'[t] :
                           /\ new.id = id
                           /\ new.fecha_creacion = old.fecha_creacion
                           /\ \A c \in DOMAIN old.cols :
                                 c \notin Supplied(i) => new.cols[c] = old.cols[c]
                 /\ Cardinality(db'[t]) = Cardinality(db[t])
                 /\ \A o \in Tables \ {t} : db'[o] = db[o]
                 /\ autoInc' = autoInc]_vars

\* Only precio was supplied: precio changed, nombre and descripcion did not.
C3_Witness ==
    \E i \in Slots :
        /\ Done(i) /\ req[i].router = "productos" /\ req[i].op = "PUT"
        /\ Supplied(i) = {"precio"} /\ req[i].resp.status = 200
        /\ \E row \in db["productos"] :
              /\ row.id = req[i].stmt.id
              /\ row.cols["precio"] = Num(0)
              /\ row.cols["nombre"] = SeedProducto
              /\ row.cols["descripcion"] = SeedDescripcion


\* ---- C4
\* The correo a create or update of usuarios hands to the query.
CorreoOf(stmt) == Assigned(stmt.args)["correo"]

\* C4: no two rows of usuarios ever hold the same correo; a create of a user
\* whose insert the Gateway runs is answered 409, and adds nothing, when a row
\* already holds its normalized correo, and is answered 201, and adds one row
\* with that correo, when none does.  So of two creates with the same correo
\* the one whose insert runs first gets 201 and the other 409, whatever the
\* order in which the two were received.
C4_DuplicateEmail ==
    /\ [](\A r1, r2 \in db["usuarios"] :
             r1.cols["correo"] = r2.cols["correo"] => r1 = r2)
    /\ [][\A i \in Slots :
            (/\ Settles(i) /\ req[i].router = "usuarios" /\ req[i].op = "POST"
             /\ req'[i].err \in {"", "ER_DUP_ENTRY"})
            => IF \E row \in db["usuarios"] :
                     row.cols["correo"] = CorreoOf(req[i].stmt)
               THEN /\ req'[i].resp.status = 409
                    /\ db' = db
               ELSE /\ req'[i].resp.status = 201
                    /\ \E row \in db'["usuarios"] \ db["usuarios"] :
                          /\ row.cols["correo"] = CorreoOf(req[i].stmt)
                          /\ db'["usuarios"] = db["usuarios"] \cup {row}]_vars

\* Two creates with the same correo, in flight at the same time: the one
\* received second settled first and got 201, the other 409.
C4_Witness ==
    /\ Done(1) /\ Done(2)
    /\ \A i \in Slots :
          /\ req[i].router = "usuarios" /\ req[i].op = "POST"
          /\ req[i].queries = 1
          /\ CorreoOf(req[i].stmt) = Str(ToLowerCase(AnaCorreo.s))
    /\ req[2].resp.status = 201 /\ req[2].resp.id = 2
    /\ req[1].resp.status = 409
    /\ Cardinality({row \in db["usuarios"] :
                      row.cols["correo"] = Str(ToLowerCase(AnaCorreo.s))}) = 1

\* ---- C5
\* C5: the id a create is answered 201 with is positive and is the id of no
\* row the table ever had; the created row is stored under it with a
\* non-null fecha_creacion; every stored row has a non-null fecha_creacion;
\* and a get-by-id answered 200 returns the stored row of the id asked for.
C5_FreshIdAndTimestamp ==
    /\ [](\A t \in Tables : \A row \in db[t] :
             row.id > 0 /\ row.fecha_creacion.t = "number")
    /\ [][\A i \in Slots :
            /\ (Settles(i) /\ req[i].op = "POST" /\ req'[i].resp.status = 201)
               => /\ req'[i].resp.id > 0
                  /\ req'[i].resp.id \notin usedIds[TableOf(i)]
                  /\ \E row \in db'[TableOf(i)] :
                        /\ row.id = req'[i].resp.id
                        /\ row.fecha_creacion.t = "number"
                        /\ \A c \in DOMAIN row.cols :
                              row.cols[c] =
                                Stored(c, req'[i].resp.rows[1].cols[c])
            /\ (Settles(i) /\ req[i].op = "GET_ID" /\ req'[i].resp.status = 200)
               => /\ req'[i].resp.rows[1] \in db[TableOf(i)]
                  /\ req'[i].resp.rows[1].id = Number(req[i].id)
                  /\ req'[i].resp.rows[1].fecha_creacion.t = "number"]_vars

\* A create answered 201 with id 2, and a get-by-id of 2 that returned the row.
C5_Witness ==
    \E i, j \in Slots :
        /\ Done(i) /\ req[i].op = "POST" /\ req[i].resp.status = 201
        /\ req[i].resp.id = 2
        /\ Done(j) /\ req[j].op = "GET_ID" /\ req[j].id = <<"0", "2">>
        /\ req[j].resp.status = 200
        /\ req[j].resp.rows[1].id = 2
        /\ req[j].resp.rows[1].cols = [c \in DOMAIN req[i].resp.rows[1].cols |->
                                         Stored(c, req[i].resp.rows[1].cols[c])]
        /\ req[j].resp.rows[1].fecha_creacion.t = "number"

\* ---- C6
\* C6: an update with a valid id whose body supplies no updatable field is
\* answered 400 with an {error} body and issues no statement, whether or not
\* a row has the id.
C6_EmptyUpdateRefused ==
    \A i \in Slots :
        (/\ Used(i) /\ req[i].op = "PUT"
         /\ ~NotPositiveInteger(req[i].id)
         /\ Supplied(i) = {})
        => /\ Done(i)
           /\ req[i].resp.status = 400
           /\ req[i].resp.kind = "error"
           /\ req[i].queries = 0
           /\ req[i].stmt = NoStmt

C6_Witness ==
    \E i \in Slots :
        /\ Done(i) /\ req[i].router = "productos" /\ req[i].op = "PUT"
        /\ req[i].id = <<"1">> /\ 1 \in Ids("productos")
        /\ Supplied(i) = {}
        /\ req[i].resp.status = 400 /\ req[i].resp.kind = "error"
        /\ req[i].queries = 0

\* ---- C7
\* C7: a delete of an id no row has, whose query raises no error, is
\* answered 404 and leaves both tables as they were, each time it is made.
C7_DeleteAbsentNoEffect ==
    [][\A i \in Slots :
          (/\ Settles(i) /\ req[i].op = "DELETE"
           /\ req[i].stmt.id \notin Ids(TableOf(i))
           /\ req'[i].err = "")
          => /\ req'[i].resp.status = 404
             /\ db' = db
             /\ autoInc' = autoInc]_vars

\* The same absent id deleted twice, both answered 404, the tables as in Init.
C7_Witness ==
    /\ \A i \in Slots :
          /\ Done(i) /\ req[i].op = "DELETE" /\ req[i].id = <<"0", "2">>
          /\ req[i].resp.status = 404
    /\ \A t \in Tables : Ids(t) = {1}


\* ---- C8
\* The SET list of the update in slot i holds field f with value v.
Sets(i, f, v) ==
    \E k \in 1..Len(req[i].stmt.args) :
        req[i].stmt.args[k] = [col |-> f, val |-> v]

\* C8 as stated: every field the body of a valid update supplies is in the
\* SET list with the value the caller supplied, and the update is not
\* refused as having no fields.
C8_SuppliedValueVerbatim ==
    \A i \in Slots :
        (/\ Used(i) /\ req[i].op = "PUT"
         /\ validationResult(req[i].router, "PUT", req[i].id, req[i].body) = {}
         /\ Supplied(i) # {})
        => /\ req[i].queries = 1
           /\ req[i].stmt.kind = "UPDATE"
           /\ \A f \in Supplied(i) : Sets(i, f, req[i].body[f])

\* C8 amended: every supplied field is in the SET list, a falsy one too, with
\* the value the validation layer made of it (nombre, apellido and
\* descripcion trimmed, correo normalized, precio as supplied); the SET list
\* holds nothing else.
C8_PresenceDecidesInclusion ==
    \A i \in Slots :
        (/\ Used(i) /\ req[i].op = "PUT"
         /\ validationResult(req[i].router, "PUT", req[i].id, req[i].body) = {}
         /\ Supplied(i) # {})
        => /\ req[i].queries = 1
           /\ req[i].stmt.kind = "UPDATE"
           /\ \A f \in Supplied(i) :
                 Sets(i, f, IF f = "precio" THEN req[i].body[f]
                            ELSE IF f = "correo"
                            THEN Str(ToLowerCase(req[i].body[f].s))
                            ELSE Str(trim(req[i].body[f].s)))
           /\ Len(req[i].stmt.args) = Cardinality(Supplied(i))
           /\ ~(req[i].resp.status = 400)

\* descripcion "" was supplied, was sent in the SET list, and was stored.
C8_Witness ==
    \E i \in Slots :
        /\ Done(i) /\ req[i].router = "productos" /\ req[i].op = "PUT"
        /\ req[i].body["descripcion"] = Str(<<>>)
        /\ Sets(i, "descripcion", Str(<<>>))
        /\ req[i].resp.status = 200
        /\ \E row \in db["productos"] :
              row.id = req[i].stmt.id /\ row.cols["descripcion"] = Str(<<>>)

\* ---- C9
\* C9: an answered request whose query raised ER_DUP_ENTRY in the create or
\* update of usuarios has status 409; one whose query raised any other error,
\* or any error on another route, has status 500 and an {error} body; 409 is
\* the answer to nothing else, and so to no productos request.
C9_ErrorMapping ==
    \A i \in Slots :
        Done(i) =>
            LET dup == /\ req[i].router = "usuarios"
                       /\ req[i].op \in {"POST", "PUT"}
                       /\ req[i].err = "ER_DUP_ENTRY"
            IN  /\ dup => req[i].resp.status = 409
                /\ (req[i].err # "" /\ ~dup) => req[i].resp.status = 500
                /\ req[i].err # "" => req[i].resp.kind = "error"
                /\ req[i].resp.status = 409 => dup
                /\ req[i].resp.status = 500 => req[i].err # ""

\* An update of usuarios whose correo another row holds: ER_DUP_ENTRY, 409.
C9_Witness ==
    \E i \in Slots :
        /\ Done(i) /\ req[i].router = "usuarios" /\ req[i].op = "PUT"
        /\ req[i].err = "ER_DUP_ENTRY"
        /\ req[i].resp.status = 409 /\ req[i].resp.kind = "error"

\* ---- C10
\* C10: a request has issued one statement when it passed validation (and,
\* an update, supplies a field) and none otherwise, never two, also once its
\* statement has failed; and a step changes the tables only as one statement
\* settles: in one table, by one row added, removed or replaced.
C10_OneStatementPerRequest ==
    /\ [](\A i \in Slots : Used(i) =>
             req[i].queries =
               IF /\ validationResult(req[i].router, req[i].op, req[i].id,
                                      req[i].body) = {}
                  /\ (req[i].op = "PUT" => Supplied(i) # {})
               THEN 1 ELSE 0)
    /\ [][/\ \A i \in Slots :
               (req[i].pc = "awaiting" /\ req'[i].pc = "awaiting")
               => req'[i] = req[i]
          /\ db' # db =>
               /\ \E i \in Slots : Settles(i) /\ req[i].stmt.kind # "SELECT"
               /\ \E t \in Tables :
                     /\ \A o \in Tables \ {t} : db'[o] = db[o]
                     /\ Cardinality(db'[t] \ db[t]) <= 1
                     /\ Cardinality(db[t] \ db'[t]) <= 1]_vars

\* A create whose insert failed: answered 500 after its one statement.
C10_Witness ==
    \E i \in Slots :
        /\ Done(i) /\ req[i].op = "POST" /\ req[i].err = "ETIMEDOUT"
        /\ req[i].queries = 1 /\ req[i].resp.status = 500


\* ---- C11
\* What exactly-one-response means for the request in slot i, but for the
\* statuses a handler may answer with.
OneResponse(i) ==
    /\ req[i].responses <= 1
    /\ Done(i) <=> req[i].responses = 1
    /\ req[i].pc = "awaiting" => req[i].handler /\ req[i].queries = 1
    /\ IF validationResult(req[i].router, req[i].op, req[i].id, req[i].body) # {}
       THEN /\ Done(i) /\ ~req[i].handler
            /\ req[i].resp.status = 400 /\ req[i].resp.kind = "errors"
            /\ req[i].queries = 0
       ELSE req[i].handler

\* C11 as stated, its safety half: a request has at most one response, and
\* has it once it is done; a failed validation is answered 400 and the
\* handler is not run; a handler that ran answers with a success status, 404,
\* 409 or 500.
C11_HandlerStatuses ==
    \A i \in Slots :
        Used(i) =>
            /\ OneResponse(i)
            /\ (Done(i) /\ req[i].handler)
               => req[i].resp.status \in {200, 201, 404, 409, 500}

\* C11 amended: as stated, where a handler that ran may also answer 400, as
\* the update handler does, without a query, for a body that supplies no
\* field; a response, once sent, is the request's only one; and every request
\* whose handler awaits its query is answered, whatever the other slot does.
C11_ExactlyOneResponse ==
    /\ [](\A i \in Slots :
             Used(i) =>
                /\ OneResponse(i)
                /\ (Done(i) /\ req[i].handler) =>
                      \/ /\ req[i].queries = 1
                         /\ req[i].resp.status \in {200, 201, 404, 409, 500}
                      \/ /\ req[i].queries = 0
                         /\ req[i].op = "PUT" /\ Supplied(i) = {}
                         /\ req[i].resp.status = 400
                         /\ req[i].resp.kind = "error")
    /\ [][\A i \in Slots :
             /\ (Done(i) /\ nreq' = nreq) => req'[i] = req[i]
             /\ (req[i].pc = "awaiting" /\ req'[i] # req[i]) => Answered(i)
             /\ req'[i].responses > req[i].responses
                => Answered(i) /\ req'[i].responses = 1]_vars
    /\ \A i \in Slots : []<>(req[i].pc # "awaiting")

\* Two requests in flight together, each answered once by its handler: a
\* create that failed with 500 and an update answered 404.
C11_Witness ==
    /\ Done(1) /\ Done(2)
    /\ \A i \in Slots : req[i].handler /\ req[i].responses = 1
    /\ req[1].op = "POST" /\ req[1].err = "ETIMEDOUT"
    /\ req[1].resp.status = 500
    /\ req[2].op = "PUT" /\ req[2].resp.status = 404
    /\ now = 3

====
